---- MODULE Spec2Model ----
\* Signal dispatch, failure isolation (wa/framework/instrument.py) and the
\* target manager's responsiveness/recovery logic (wa/framework/target/manager.py).
\*
\* Every public operation is one action.  An operation is a synchronous,
\* single-threaded call chain, so its body is computed by operators that thread
\* a record `s` of the mutable program state through the calls they make:
\*   s.failures_detected   instrument.failures_detected
\*   s.status, s.events    the execution context's status and event log
\*   s.is_responsive       TargetManager.is_responsive
\*   s.trace               what the operation did, in order (observable events)
\*   s.exc                 the exception in flight ("none" when there is none)
EXTENDS Integers, Sequences, FiniteSets, TLC

\* ------------------------------------------------------------------ bounds

\* Registrations one signal may hold (uninstall never disconnects, so the
\* registry only grows).
MaxReceivers == 2
\* Length of the context's event log.
MaxEvents == 2

\* ------------------------------------------------------------- priorities

\* Priority = enum(['very_slow', 'slow', 'normal', 'fast', 'very_fast'], -20, 10)
PriorityStart == -20
PriorityStep == 10
PriorityLevels == <<"very_slow", "slow", "normal", "fast", "very_fast">>

Priority(name) ==
    LET k == CHOOSE j \in 1..Len(PriorityLevels) : PriorityLevels[j] = name
    IN  PriorityStart + (k - 1) * PriorityStep

\* A python callable attribute: number of named positional parameters,
\* whether it declares *args, and the `priority` attribute the decorator
\* attached ("unset" when the method is not decorated).
Method(args, varargs, prio) ==
    [callable |-> TRUE, args |-> args, varargs |-> varargs, priority |-> prio]

NoPriority == [set |-> FALSE, value |-> 0]

\* An attribute that is not callable.
NotCallable == [callable |-> FALSE, args |-> 0, varargs |-> FALSE, priority |-> NoPriority]

\* priority(priority): named levels resolve to the enum value, any other int
\* is kept as a 'custom' level of that value.
priority(p) == [set |-> TRUE, value |-> p]

\* get_priority ignoring the attached priority.
get_priority_default_only(attr) == Priority("normal")

\* get_priority(func): the attached priority, Priority.normal by default.
get_priority(attr) ==
    IF attr.priority.set THEN attr.priority.value ELSE Priority("normal")

\* -------------------------------------------------------------- signal map

SIGNAL_MAP ==
    [initialize |-> "RUN_INITIALIZED",
     setup |-> "BEFORE_WORKLOAD_SETUP",
     start |-> "BEFORE_WORKLOAD_EXECUTION",
     stop |-> "AFTER_WORKLOAD_EXECUTION",
     process_workload_output |-> "SUCCESSFUL_WORKLOAD_OUTPUT_UPDATE",
     update_output |-> "AFTER_WORKLOAD_OUTPUT_UPDATE",
     teardown |-> "AFTER_WORKLOAD_TEARDOWN",
     finalize |-> "RUN_FINALIZED",
     on_run_start |-> "RUN_STARTED",
     on_run_end |-> "RUN_COMPLETED",
     on_job_start |-> "JOB_STARTED",
     on_job_restart |-> "JOB_RESTARTED",
     on_job_end |-> "JOB_COMPLETED",
     on_job_falure |-> "JOB_FAILED",
     on_job_abort |-> "JOB_ABORTED",
     before_job |-> "BEFORE_JOB",
     on_successful_job |-> "SUCCESSFUL_JOB",
     after_job |-> "AFTER_JOB",
     before_processing_job_output |-> "BEFORE_JOB_OUTPUT_PROCESSED",
     on_successfully_processing_job |-> "SUCCESSFUL_JOB_OUTPUT_PROCESSED",
     after_processing_job_output |-> "AFTER_JOB_OUTPUT_PROCESSED",
     before_reboot |-> "BEFORE_REBOOT",
     on_successful_reboot |-> "SUCCESSFUL_REBOOT",
     after_reboot |-> "AFTER_REBOOT",
     on_error |-> "ERROR_LOGGED",
     on_warning |-> "WARNING_LOGGED"]

\* The signals of signal.wrap(name): BEFORE_<name>, SUCCESSFUL_<name>, AFTER_<name>.
WrapSignals ==
    [REBOOT |-> [before |-> "BEFORE_REBOOT", successful |-> "SUCCESSFUL_REBOOT",
                 after |-> "AFTER_REBOOT"],
     TARGET_CONNECT |-> [before |-> "BEFORE_TARGET_CONNECT",
                         successful |-> "SUCCESSFUL_TARGET_CONNECT",
                         after |-> "AFTER_TARGET_CONNECT"],
     TARGET_DISCONNECT |-> [before |-> "BEFORE_TARGET_DISCONNECT",
                            successful |-> "SUCCESSFUL_TARGET_DISCONNECT",
                            after |-> "AFTER_TARGET_DISCONNECT"]]

AllSignals ==
    {SIGNAL_MAP[m] : m \in DOMAIN SIGNAL_MAP}
        \cup {WrapSignals[n][k] : n \in DOMAIN WrapSignals, k \in {"before", "successful", "after"}}

\* ------------------------------------------------------- instrument objects

\* The Instrument instances that exist in the run.  `dir` is dir(instrument)
\* (sorted by name) restricted to the attributes the class defines beyond
\* object's; `attrs` gives each attribute's value.
Instruments ==
    [A |-> [name |-> "trace-cmd",
            dir |-> <<"before_reboot", "name", "setup", "start", "validate">>,
            attrs |-> [before_reboot |-> Method(2, FALSE, NoPriority),
                       setup |-> Method(2, FALSE, priority(Priority("fast"))),
                       start |-> Method(1, TRUE, NoPriority)]],
     B |-> [name |-> "energy",
            dir |-> <<"after_reboot", "name", "setup", "start", "validate">>,
            attrs |-> [after_reboot |-> Method(2, FALSE, priority(Priority("slow"))),
                       setup |-> Method(2, FALSE, priority(5)),
                       start |-> Method(2, FALSE, priority(Priority("normal")))]],
     \* a second instance under the name A has
     C |-> [name |-> "trace-cmd",
            dir |-> <<"name", "setup">>,
            attrs |-> [setup |-> Method(2, TRUE, NoPriority)]],
     \* a name that differs from A's but has the same identifier
     D |-> [name |-> "trace_cmd",
            dir |-> <<"name", "start">>,
            attrs |-> [start |-> Method(0, TRUE, NoPriority)]],
     \* def start(self, context, extra), behind a well-formed setup
     E |-> [name |-> "badarity",
            dir |-> <<"name", "setup", "start">>,
            attrs |-> [setup |-> Method(2, FALSE, NoPriority),
                       start |-> Method(3, FALSE, NoPriority)]],
     \* setup = 'a string'
     F |-> [name |-> "notcallable",
            dir |-> <<"name", "setup">>,
            attrs |-> [setup |-> NotCallable]],
     \* def start(self)
     G |-> [name |-> "onearg",
            dir |-> <<"name", "start">>,
            attrs |-> [start |-> Method(1, FALSE, NoPriority)]],
     \* def start(self, context, extra, *args)
     H |-> [name |-> "threeargs",
            dir |-> <<"name", "start">>,
            attrs |-> [start |-> Method(3, TRUE, NoPriority)]]]

Insts == DOMAIN Instruments

\* The signals some instrument method is mapped to, and those wrap sends:
\* the ones the registry holds an entry for.
Signals ==
    {SIGNAL_MAP[a] : a \in UNION {DOMAIN Instruments[i].attrs : i \in Insts}}
        \cup {WrapSignals[n][k] : n \in DOMAIN WrapSignals, k \in {"before", "successful", "after"}}

\* A name no instrument of the run has.
UnknownName == "unknown"

Names == {Instruments[i].name : i \in Insts} \cup {UnknownName}

\* isinstance(x, Instrument): instances are referred to by their key in
\* Instruments, names are the other strings.
IsInstrument(x) == x \in Insts

\* identifier(text): every character that cannot be part of a python
\* identifier becomes an underscore.
identifier(text) ==
    CASE text = "trace-cmd" -> "trace_cmd"
      [] OTHER -> text

\* -------------------------------------------------------------------- state

VARIABLES
    pool,                \* the Instrument instances the caller may pass
    installed,           \* instrument.installed
    is_enabled,          \* Instrument.is_enabled, per instance
    is_broken,           \* Instrument.is_broken, per instance
    callbacks,           \* instrument._callbacks: the ManagedCallbacks, in creation order
    connections,         \* the signal registry: per signal, the registrations in connect order
    failures_detected,   \* instrument.failures_detected
    context,             \* the execution context's status and event log
    tm,                  \* the TargetManager: is_responsive, disconnect
    errors_since_check,  \* history: a callback error was intercepted since the last check/reset
    installs,            \* history: the installs of each instrument that succeeded
    last                 \* the last operation: its name, argument, trace and result

vars ==
    <<pool, installed, is_enabled, is_broken, callbacks, connections,
      failures_detected, context, tm, errors_since_check, installs, last>>

registry == <<installed, is_enabled, is_broken, callbacks, connections>>

\* One observable event of an operation.
Ev(kind, a, b, n) == [kind |-> kind, a |-> a, b |-> b, n |-> n]

Op(name, arg, trace, result) ==
    [op |-> name, arg |-> arg, trace |-> trace, result |-> result]

\* No operation is being observed: the caller has taken the last result.
Idle == last.op = "idle"

\* ------------------------------------------------------ sequences (helpers)

RECURSIVE SelectIdx(_, _, _)
\* The indices k >= from of seq with seq[k] = x, in order.
SelectIdx(seq, x, from) ==
    IF from > Len(seq) THEN <<>>
    ELSE IF seq[from] = x THEN <<from>> \o SelectIdx(seq, x, from + 1)
    ELSE SelectIdx(seq, x, from + 1)

\* list.remove(x): drops the first occurrence.
ListRemove(seq, x) ==
    LET k == SelectIdx(seq, x, 1)[1]
    IN  SubSeq(seq, 1, k - 1) \o SubSeq(seq, k + 1, Len(seq))

Range(seq) == {seq[k] : k \in 1..Len(seq)}

\* ---------------------------------------------------------- signal registry

\* signal.connect(handler, signal, priority): one more registration of the
\* handler under the signal; nothing is checked for uniqueness.
connect(conns, mc, signal, prio) ==
    [conns EXCEPT ![signal] = Append(@, [mc |-> mc, priority |-> prio])]

RECURSIVE InsertByPriority(_, _)
\* reg placed behind every registration whose priority is at least its own.
InsertByPriority(sorted, reg) ==
    IF sorted = <<>> THEN <<reg>>
    ELSE IF Head(sorted).priority >= reg.priority
         THEN <<Head(sorted)>> \o InsertByPriority(Tail(sorted), reg)
         ELSE <<reg>> \o sorted

RECURSIVE Receivers(_, _)
\* The order in which send visits the first k registrations of a signal:
\* descending priority, registration order among equals.
Receivers(regs, k) ==
    IF k = 0 THEN <<>> ELSE InsertByPriority(Receivers(regs, k - 1), regs[k])

\* ------------------------------------------------------ instrument registry

\* is_installed that knows an instance only by identity.
is_installed_by_identity(instrument) == instrument \in Range(installed)

\* is_installed(instrument), for an Instrument instance or a name.
is_installed(instrument) ==
    IF IsInstrument(instrument)
    THEN \/ instrument \in Range(installed)
         \/ Instruments[instrument].name \in {Instruments[i].name : i \in Range(installed)}
    ELSE identifier(instrument) \in {identifier(Instruments[i].name) : i \in Range(installed)}

\* get_instrument that compares the names as they are written.
get_instrument_by_exact_name(inst) ==
    IF IsInstrument(inst) THEN inst
    ELSE LET hits == {k \in 1..Len(installed) : Instruments[installed[k]].name = inst}
         IN  IF hits = {} THEN "ValueError"
             ELSE installed[CHOOSE k \in hits : \A j \in hits : k <= j]

\* get_instrument(inst): the instance itself, or the first installed
\* instrument of that name; "ValueError" stands for the raise.
get_instrument(inst) ==
    IF IsInstrument(inst) THEN inst
    ELSE LET hits == {k \in 1..Len(installed) :
                         identifier(Instruments[installed[k]].name) = identifier(inst)}
         IN  IF hits = {} THEN "ValueError"
             ELSE installed[CHOOSE k \in hits : \A j \in hits : k <= j]

\* ManagedCallback(instrument, callback); serial is its place in _callbacks,
\* which tells two wrappers of the same method apart.
ManagedCallback(instrument, attr_name, serial) ==
    [instrument |-> instrument, callback |-> attr_name, serial |-> serial]

RECURSIVE install_scan(_, _, _)
\* The loop of install with a test of the arity that overlooks *args.
install_scan_exactly_two(instrument, k, r) ==
    LET names == Instruments[instrument].dir
        attr_name == names[k]
        attr == Instruments[instrument].attrs[attr_name]
        arg_num == attr.args
        mc == ManagedCallback(instrument, attr_name, Len(r.callbacks) + 1)
    IN  IF k > Len(names) THEN r
        ELSE IF attr_name \notin DOMAIN SIGNAL_MAP THEN install_scan(instrument, k + 1, r)
        ELSE IF ~attr.callable
             THEN [r EXCEPT !.exc = "ValueError", !.msg = <<"not callable", attr_name, 0>>]
        ELSE IF arg_num # 2
             THEN [r EXCEPT !.exc = "ValueError", !.msg = <<"arity", attr_name, arg_num>>]
        ELSE install_scan(instrument, k + 1,
                 [r EXCEPT !.callbacks = Append(@, mc),
                           !.connections = connect(@, mc, SIGNAL_MAP[attr_name],
                                                   get_priority(attr))])

\* The loop of install over dir(instrument), from position k on, with r the
\* callbacks and connections made so far.
install_scan(instrument, k, r) ==
    LET names == Instruments[instrument].dir
        attr_name == names[k]
        attr == Instruments[instrument].attrs[attr_name]
        arg_num == attr.args
        mc == ManagedCallback(instrument, attr_name, Len(r.callbacks) + 1)
    IN  IF k > Len(names) THEN r
        ELSE IF attr_name \notin DOMAIN SIGNAL_MAP THEN install_scan(instrument, k + 1, r)
        ELSE IF ~attr.callable
             THEN [r EXCEPT !.exc = "ValueError", !.msg = <<"not callable", attr_name, 0>>]
        ELSE IF arg_num > 2 \/ (arg_num < 2 /\ ~attr.varargs)
             THEN [r EXCEPT !.exc = "ValueError", !.msg = <<"arity", attr_name, arg_num>>]
        ELSE install_scan(instrument, k + 1,
                 [r EXCEPT !.callbacks = Append(@, mc),
                           !.connections = connect(@, mc, SIGNAL_MAP[attr_name],
                                                   get_priority(attr))])

\* install(instrument, context) as a function of the registry.
install(instrument) ==
    LET r0 == [exc |-> "none", msg |-> <<"", "", 0>>, callbacks |-> callbacks,
               connections |-> connections, installed |-> installed]
    IN  IF is_installed(instrument)
        THEN [r0 EXCEPT !.exc = "ValueError",
                         !.msg = <<"already installed", Instruments[instrument].name, 0>>]
        ELSE LET r == install_scan(instrument, 1, r0)
             IN  IF r.exc # "none" THEN r
                 ELSE [r EXCEPT !.installed = Append(@, instrument)]

\* ------------------------------------------------- exceptions and arguments

\* What an instrument method can do when called: return, or raise one of these.
Outcomes ==
    {"ok", "KeyboardInterrupt", "TargetNotRespondingError", "TimeoutError",
     "WorkloadError", "TargetError", "Exception"}

IsWorkloadError(e) == e = "WorkloadError"
IsTargetError(e) == e = "TargetError"
IsTimeoutError(e) == e = "TimeoutError"

\* Python values passed as a `context` argument: the execution context
\* object (with what the run has set on it: whether a job is active and the
\* reboot policy; its status and event log are the variable `context`), or
\* a plain bool.
ExecutionContext(current_job, can_reboot) ==
    [type |-> "ExecutionContext", current_job |-> current_job,
     reboot_policy |-> [can_reboot |-> can_reboot], value |-> FALSE]
PyBool(b) ==
    [type |-> "bool", current_job |-> FALSE,
     reboot_policy |-> [can_reboot |-> FALSE], value |-> b]
\* Whether v.<attr> exists: a bool has none of the context's attributes.
HasAttr(v, attr) == v.type = "ExecutionContext"

\* The inputs of one operation: what each invoked method does (by signal
\* and instrument), whether the target answers the liveness probe, and
\* whether target.reboot raises.
Beh(o, signal, instrument) ==
    IF <<signal, instrument>> \in DOMAIN o.beh THEN o.beh[<<signal, instrument>>] ELSE "ok"

\* ----------------------------------------------- the state an operation threads

Start ==
    [failures_detected |-> failures_detected,
     status |-> context.status,
     events |-> context.events,
     is_responsive |-> tm.is_responsive,
     trace |-> <<>>,
     exc |-> "none"]

Log(s, e) == [s EXCEPT !.trace = Append(@, e)]
Raise(s, e) == [s EXCEPT !.exc = e, !.trace = Append(@, Ev("raise", e, "", 0))]

\* A value the operation read from the context or the target (an input).
Read(s, what, value) ==
    Log(s, Ev("read", what, IF value THEN "True" ELSE "False", 0))

\* context.add_event(message)
add_event(s, message) ==
    [s EXCEPT !.events = Append(@, message),
              !.trace = Append(@, Ev("add_event", message, "", 0))]

\* context.set_status(status)
set_status(s, status) ==
    [s EXCEPT !.status = status, !.trace = Append(@, Ev("set_status", status, "", 0))]

\* self.is_responsive = value
set_responsive(s, value) ==
    [s EXCEPT !.is_responsive = value,
              !.trace = Append(@, Ev("is_responsive", IF value THEN "True" ELSE "False", "", 0))]

\* --------------------------------------------------------------- dispatch

RECURSIVE classify(_, _, _, _)
RECURSIVE classify_never_raising(_, _, _, _)
RECURSIVE ManagedCallback_call(_, _, _, _, _)
RECURSIVE send_from(_, _, _, _, _, _)
RECURSIVE send(_, _, _, _)
RECURSIVE wrap_exit(_, _, _, _)
RECURSIVE reboot(_, _, _, _)
RECURSIVE verify_target_responsive(_, _, _)

\* target.has('hard_reset'), target.check_responsive(explode=False) and
\* target.reboot(hard): the device; what it answers is an input.
target_has_hard_reset(o) == o.hard_reset
target_check_responsive(o) == o.probe

target_reboot(s, hard, o) ==
    LET s1 == Log(s, Ev("target.reboot", IF hard THEN "hard" ELSE "soft", "", 0))
    IN  IF o.reboot_raises THEN Raise(s1, "TargetError") ELSE s1

\* The guard of ManagedCallback.__call__: the callback is not called for a
\* disabled instrument, nor while the target is marked unresponsive.
Skips_disabled_only(s, mc) == ~is_enabled[mc.instrument]

Skips(s, mc) == ~is_enabled[mc.instrument] \/ ~s.is_responsive

\* The first except clause: what is raised on unchanged.
Reraised_without_timeout == {"KeyboardInterrupt", "TargetNotRespondingError"}

Reraised == {"KeyboardInterrupt", "TargetNotRespondingError", "TimeoutError"}

\* The classification that ends the second except clause, for the error e
\* caught in state s.
classify_never_raising(s, e, ctx, o) ==
    IF IsWorkloadError(e) THEN set_status(s, "FAILED")
    ELSE IF IsTargetError(e) \/ IsTimeoutError(e)
         THEN verify_target_responsive(s, PyBool(ctx.reboot_policy.can_reboot), o)
    ELSE set_status(Read(s, "current_job", ctx.current_job), "PARTIAL")

classify(s, e, ctx, o) ==
    IF IsWorkloadError(e) THEN set_status(s, "FAILED")
    ELSE IF IsTargetError(e) \/ IsTimeoutError(e)
         THEN verify_target_responsive(s, PyBool(ctx.reboot_policy.can_reboot), o)
    ELSE IF ctx.current_job THEN set_status(Read(s, "current_job", TRUE), "PARTIAL")
    ELSE [Read(s, "current_job", FALSE) EXCEPT !.exc = e]

\* e.message: the text the error carries.  The errors of the model all
\* carry the same text.
message(e) == "error message"

\* ManagedCallback.__call__ raising an unclassified error on, when no job
\* is active, before it has recorded the failure.
ManagedCallback_call_raising_early(s, mc, signal, ctx, o) ==
    LET entered == Log(s, Ev("mc", mc.instrument, mc.callback, mc.serial))
        e == Beh(o, signal, mc.instrument)
        called == Log(entered, Ev("call", mc.instrument, mc.callback, mc.serial))
        thrown == Log(called, Ev("raised", e, mc.instrument, mc.serial))
        flagged == Log([thrown EXCEPT !.failures_detected = TRUE],
                       Ev("failures_detected", "", "", 0))
        logged == add_event(flagged, message(e))
        done ==
            IF Skips(entered, mc) THEN entered
            ELSE IF e = "ok" THEN called
            ELSE IF e \in Reraised THEN [thrown EXCEPT !.exc = e]
            ELSE IF e = "Exception" /\ ~ctx.current_job
                 THEN [Read(thrown, "current_job", FALSE) EXCEPT !.exc = e]
            ELSE classify(logged, e, ctx, o)
    IN  Log(done, Ev("mc_exit", done.exc, mc.instrument, mc.serial))

\* ManagedCallback.__call__(context), invoked for `signal`.  The events
\* "mc" and "mc_exit" mark the call and what it returned or raised.
ManagedCallback_call(s, mc, signal, ctx, o) ==
    LET entered == Log(s, Ev("mc", mc.instrument, mc.callback, mc.serial))
        e == Beh(o, signal, mc.instrument)
        called == Log(entered, Ev("call", mc.instrument, mc.callback, mc.serial))
        thrown == Log(called, Ev("raised", e, mc.instrument, mc.serial))
        flagged == Log([thrown EXCEPT !.failures_detected = TRUE],
                       Ev("failures_detected", "", "", 0))
        logged == add_event(flagged, message(e))
        done ==
            IF Skips(entered, mc) THEN entered
            ELSE IF e = "ok" THEN called
            ELSE IF e \in Reraised THEN [thrown EXCEPT !.exc = e]
            ELSE classify(logged, e, ctx, o)
    IN  Log(done, Ev("mc_exit", done.exc, mc.instrument, mc.serial))

\* send visiting the receivers rs from position k on; a raising receiver
\* ends the dispatch.
send_from(s, rs, k, signal, ctx, o) ==
    IF k > Len(rs) \/ s.exc # "none" THEN s
    ELSE send_from(ManagedCallback_call(s, rs[k].mc, signal, ctx, o), rs, k + 1, signal, ctx, o)

\* signal.send(signal, sender, context)
send(s, signal, ctx, o) ==
    send_from(Log(s, Ev("send", signal, "", 0)),
              Receivers(connections[signal], Len(connections[signal])), 1, signal, ctx, o)

\* signal.wrap(name, sender, context), entering: BEFORE_<name> is sent.
wrap_enter(s, name, ctx, o) == send(s, WrapSignals[name].before, ctx, o)

\* signal.wrap leaving, with s the state after the before-signal and the
\* wrapped operation: SUCCESSFUL_<name> when nothing was raised, AFTER_<name>
\* in every case, then whatever was raised goes on to the caller.
wrap_exit(s, name, ctx, o) ==
    LET body == IF s.exc = "none" THEN send(s, WrapSignals[name].successful, ctx, o) ELSE s
        after == send([body EXCEPT !.exc = "none"], WrapSignals[name].after, ctx, o)
    IN  IF after.exc # "none" THEN after ELSE [after EXCEPT !.exc = body.exc]

\* A reboot that sends the three signals itself, one after the other,
\* instead of wrapping the operation.
reboot_sending_in_sequence(s, ctx, hard, o) ==
    LET before == send(s, "BEFORE_REBOOT", ctx, o)
        done == IF before.exc = "none" THEN target_reboot(before, hard, o) ELSE before
        ok == IF done.exc = "none" THEN send(done, "SUCCESSFUL_REBOOT", ctx, o) ELSE done
    IN  IF ok.exc = "none" THEN send(ok, "AFTER_REBOOT", ctx, o) ELSE ok

\* A reboot that marks the target responsive once it has completed.
reboot_marking_responsive(s, ctx, hard, o) ==
    LET before == wrap_enter(s, "REBOOT", ctx, o)
        done == IF before.exc = "none" THEN target_reboot(before, hard, o) ELSE before
        left == wrap_exit(done, "REBOOT", ctx, o)
    IN  IF left.exc = "none" THEN set_responsive(left, TRUE) ELSE left

\* TargetManager.reboot(context, hard)
reboot(s, ctx, hard, o) ==
    LET before == wrap_enter(s, "REBOOT", ctx, o)
        done == IF before.exc = "none" THEN target_reboot(before, hard, o) ELSE before
    IN  wrap_exit(done, "REBOOT", ctx, o)

\* verify_target_responsive with the reboot policy not consulted.
verify_ignoring_policy(s, ctx, o) ==
    LET up == target_check_responsive(o)
        probed == Log(Read(s, "can_reboot", ctx.reboot_policy.can_reboot),
                      Ev("check_responsive", IF up THEN "up" ELSE "down", "", 0))
        down == set_responsive(probed, FALSE)
        asked == Read(down, "hard_reset", target_has_hard_reset(o))
        r == reboot(asked, ctx, TRUE, o)
    IN  IF up THEN probed
        ELSE IF target_has_hard_reset(o)
             THEN IF r.exc # "none" THEN r
                  ELSE Raise(set_responsive(r, TRUE), "ExecutionError")
        ELSE Raise(asked, "TargetNotRespondingError")

\* verify_target_responsive returning normally after the hard reboot.
verify_silent_recovery(s, ctx, o) ==
    LET up == target_check_responsive(o)
        probed == Log(Read(s, "can_reboot", ctx.reboot_policy.can_reboot),
                      Ev("check_responsive", IF up THEN "up" ELSE "down", "", 0))
        down == set_responsive(probed, FALSE)
        asked == Read(down, "hard_reset", target_has_hard_reset(o))
        r == reboot(asked, ctx, TRUE, o)
    IN  IF up THEN probed
        ELSE IF ~ctx.reboot_policy.can_reboot THEN Raise(down, "TargetNotRespondingError")
        ELSE IF target_has_hard_reset(o)
             THEN IF r.exc # "none" THEN r ELSE set_responsive(r, TRUE)
        ELSE Raise(asked, "TargetNotRespondingError")

\* verify_target_responsive marking the target responsive when the probe
\* answers.
verify_marking_responsive(s, ctx, o) ==
    LET up == target_check_responsive(o)
        probed == Log(Read(s, "can_reboot", ctx.reboot_policy.can_reboot),
                      Ev("check_responsive", IF up THEN "up" ELSE "down", "", 0))
        down == set_responsive(probed, FALSE)
        asked == Read(down, "hard_reset", target_has_hard_reset(o))
        r == reboot(asked, ctx, TRUE, o)
    IN  IF up THEN set_responsive(probed, TRUE)
        ELSE IF ~ctx.reboot_policy.can_reboot THEN Raise(down, "TargetNotRespondingError")
        ELSE IF target_has_hard_reset(o)
             THEN IF r.exc # "none" THEN r
                  ELSE Raise(set_responsive(r, TRUE), "ExecutionError")
        ELSE Raise(asked, "TargetNotRespondingError")

\* verify_target_responsive marking the target responsive before the
\* recovery reboot instead of after it.
verify_responsive_before_reboot(s, ctx, o) ==
    LET up == target_check_responsive(o)
        probed == Log(Read(s, "can_reboot", ctx.reboot_policy.can_reboot),
                      Ev("check_responsive", IF up THEN "up" ELSE "down", "", 0))
        down == set_responsive(probed, FALSE)
        asked == Read(down, "hard_reset", target_has_hard_reset(o))
        r == reboot(set_responsive(asked, TRUE), ctx, TRUE, o)
    IN  IF up THEN probed
        ELSE IF ~ctx.reboot_policy.can_reboot THEN Raise(down, "TargetNotRespondingError")
        ELSE IF target_has_hard_reset(o)
             THEN IF r.exc # "none" THEN r ELSE Raise(r, "ExecutionError")
        ELSE Raise(asked, "TargetNotRespondingError")

\* TargetManager.verify_target_responsive(context)
verify_target_responsive(s, ctx, o) ==
    IF ~HasAttr(ctx, "reboot_policy") THEN Raise(s, "AttributeError")
    ELSE LET can_reboot == ctx.reboot_policy.can_reboot
             up == target_check_responsive(o)
             probed == Log(Read(s, "can_reboot", can_reboot),
                           Ev("check_responsive", IF up THEN "up" ELSE "down", "", 0))
             down == set_responsive(probed, FALSE)
             asked == Read(down, "hard_reset", target_has_hard_reset(o))
             r == reboot(asked, ctx, TRUE, o)
         IN  IF up THEN probed
             ELSE IF ~can_reboot THEN Raise(down, "TargetNotRespondingError")
             ELSE IF target_has_hard_reset(o)
                  THEN IF r.exc # "none" THEN r
                       ELSE Raise(set_responsive(r, TRUE), "ExecutionError")
             ELSE Raise(asked, "TargetNotRespondingError")

\* The signals the mapped attributes of an instrument connect to.
MappedSignals(instrument) ==
    {SIGNAL_MAP[a] : a \in Range(Instruments[instrument].dir) \cap DOMAIN SIGNAL_MAP}

Install(instrument) ==
    /\ Idle
    /\ \A g \in MappedSignals(instrument) : Len(connections[g]) < MaxReceivers
    /\ LET r == install(instrument)
       IN  /\ callbacks' = r.callbacks
           /\ connections' = r.connections
           /\ installed' = r.installed
           /\ last' = Op("install", <<instrument>>,
                          IF r.exc = "none" THEN <<>>
                          ELSE <<Ev("raise", r.exc, <<r.msg[1], r.msg[2]>>, r.msg[3])>>,
                          r.exc)
    /\ installs' = IF install(instrument).exc = "none"
                   THEN [installs EXCEPT ![instrument] = @ + 1] ELSE installs
    /\ UNCHANGED <<pool, is_enabled, is_broken, failures_detected, context, tm,
                   errors_since_check>>

\* An uninstall that also disconnects the instrument's Managed Callbacks.
Uninstall_disconnecting(instrument) ==
    LET found == get_instrument(instrument)
        ok == found \in Range(installed)
    IN  /\ Idle
        /\ installed' = IF ok THEN ListRemove(installed, found) ELSE installed
        /\ connections' =
               IF ok THEN [g \in Signals |->
                              SelectSeq(connections[g], LAMBDA reg : reg.mc.instrument # found)]
               ELSE connections
        /\ last' = Op("uninstall", <<instrument>>, <<>>, IF ok THEN "none" ELSE "ValueError")
        /\ UNCHANGED <<pool, installs, is_enabled, is_broken, callbacks,
                       failures_detected, context, tm, errors_since_check>>

\* uninstall(instrument)
Uninstall(instrument) ==
    LET found == get_instrument(instrument)
        ok == found \in Range(installed)
    IN  /\ Idle
        /\ installed' = IF ok THEN ListRemove(installed, found) ELSE installed
        /\ last' = Op("uninstall", <<instrument>>,
                       IF ok THEN <<>>
                       ELSE IF found = "ValueError"
                            THEN <<Ev("raise", "ValueError", <<"not installed", instrument>>, 0)>>
                       ELSE <<Ev("raise", "ValueError", <<"list.remove(x): x not in list", "">>, 0)>>,
                       IF ok THEN "none" ELSE "ValueError")
        /\ UNCHANGED <<pool, installs, is_enabled, is_broken, callbacks, connections,
                       failures_detected, context, tm, errors_since_check>>

\* _enable_instrument without the test of is_broken.
enable_instrument_even_if_broken(en, inst) ==
    LET found == get_instrument(inst)
    IN  IF found = "ValueError" THEN [exc |-> "ValueError", is_enabled |-> en.is_enabled]
        ELSE [exc |-> "none", is_enabled |-> [en.is_enabled EXCEPT ![found] = TRUE]]

\* _enable_instrument(inst) / _disable_instrument(inst) on the flags en.
enable_instrument(en, inst) ==
    LET found == get_instrument(inst)
    IN  IF found = "ValueError" THEN [exc |-> "ValueError", is_enabled |-> en.is_enabled]
        ELSE IF ~is_broken[found]
             THEN [exc |-> "none", is_enabled |-> [en.is_enabled EXCEPT ![found] = TRUE]]
             ELSE [exc |-> "none", is_enabled |-> en.is_enabled]

disable_instrument(en, inst) ==
    LET found == get_instrument(inst)
    IN  IF found = "ValueError" THEN [exc |-> "ValueError", is_enabled |-> en.is_enabled]
        ELSE IF en.is_enabled[found]
             THEN [exc |-> "none", is_enabled |-> [en.is_enabled EXCEPT ![found] = FALSE]]
             ELSE [exc |-> "none", is_enabled |-> en.is_enabled]

RECURSIVE enable_each(_, _, _)
enable_each(en, refs, k) ==
    IF k > Len(refs) \/ en.exc # "none" THEN en
    ELSE enable_each(enable_instrument(en, refs[k]), refs, k + 1)

RECURSIVE disable_each(_, _, _)
disable_each(en, refs, k) ==
    IF k > Len(refs) \/ en.exc # "none" THEN en
    ELSE disable_each(disable_instrument(en, refs[k]), refs, k + 1)

Flags == [exc |-> "none", is_enabled |-> is_enabled]

\* enable(to_enable): one reference, or an iterable of them (refs).
Enable(refs) ==
    LET r == enable_each(Flags, refs, 1)
    IN  /\ Idle
        /\ is_enabled' = r.is_enabled
        /\ last' = Op("enable", refs, <<>>, r.exc)
        /\ UNCHANGED <<pool, installs, installed, is_broken, callbacks, connections,
                       failures_detected, context, tm, errors_since_check>>

Disable(refs) ==
    LET r == disable_each(Flags, refs, 1)
    IN  /\ Idle
        /\ is_enabled' = r.is_enabled
        /\ last' = Op("disable", refs, <<>>, r.exc)
        /\ UNCHANGED <<pool, installs, installed, is_broken, callbacks, connections,
                       failures_detected, context, tm, errors_since_check>>

EnableAll ==
    LET r == enable_each(Flags, installed, 1)
    IN  /\ Idle
        /\ is_enabled' = r.is_enabled
        /\ last' = Op("enable_all", <<>>, <<>>, r.exc)
        /\ UNCHANGED <<pool, installs, installed, is_broken, callbacks, connections,
                       failures_detected, context, tm, errors_since_check>>

DisableAll ==
    LET r == disable_each(Flags, installed, 1)
    IN  /\ Idle
        /\ is_enabled' = r.is_enabled
        /\ last' = Op("disable_all", <<>>, <<>>, r.exc)
        /\ UNCHANGED <<pool, installs, installed, is_broken, callbacks, connections,
                       failures_detected, context, tm, errors_since_check>>

\* get_enabled() and get_disabled(): the installed instruments by flag.
get_enabled == SelectSeq(installed, LAMBDA i : is_enabled[i])
get_disabled == SelectSeq(installed, LAMBDA i : ~is_enabled[i])

\* ------------------------------------------------------- failure flag

\* reset_failures()
ResetFailures ==
    /\ Idle
    /\ failures_detected' = FALSE
    /\ errors_since_check' = FALSE
    /\ last' = Op("reset_failures", <<>>, <<>>, "none")
    /\ UNCHANGED <<pool, installs, registry, context, tm>>

check_failures_without_reset ==
    [result |-> failures_detected, failures_detected |-> failures_detected]

\* check_failures(): the flag, which is then reset.
check_failures == [result |-> failures_detected, failures_detected |-> FALSE]

\* The run asks whether an instrument failed; it may ask again at once.
CheckFailures ==
    /\ Idle \/ last.op = "check_failures"
    /\ failures_detected' = check_failures.failures_detected
    /\ errors_since_check' = FALSE
    /\ last' = Op("check_failures", <<>>, <<>>, IF check_failures.result THEN "True" ELSE "False")
    /\ UNCHANGED <<pool, installs, registry, context, tm>>

\* ------------------------------------------------- operations that dispatch

\* The methods an operation sending `signals` can reach: those of enabled
\* instruments, and none while the target is marked unresponsive.
Reached(signals) ==
    IF ~tm.is_responsive THEN {}
    ELSE {p \in signals \X Insts :
              /\ is_enabled[p[2]]
              /\ \E k \in 1..Len(connections[p[1]]) :
                     connections[p[1]][k].mc.instrument = p[2]}

\* An error among the events of a trace that the isolation layer intercepts.
Intercepted(trace) ==
    \E k \in 1..Len(trace) :
        /\ trace[k].kind = "raised"
        /\ trace[k].a \notin {"KeyboardInterrupt", "TargetNotRespondingError", "TimeoutError"}

\* The state an operation leaves, given the record r it threaded.
Finish(name, arg, r) ==
    /\ Idle
    /\ Len(r.events) <= MaxEvents
    /\ failures_detected' = r.failures_detected
    /\ context' = [context EXCEPT !.status = r.status, !.events = r.events]
    /\ tm' = [tm EXCEPT !.is_responsive = r.is_responsive]
    /\ errors_since_check' = (errors_since_check \/ Intercepted(r.trace))
    /\ last' = Op(name, arg, r.trace, r.exc)
    /\ UNCHANGED <<pool, installs, registry>>

\* The inputs of an operation that only dispatches.
Inputs(beh) == [beh |-> beh, probe |-> TRUE, hard_reset |-> FALSE, reboot_raises |-> FALSE]

\* The contexts the run passes to an operation, by whether a job is active
\* and whether the reboot policy allows a reboot.
Contexts == {ExecutionContext(job, can) : job \in BOOLEAN, can \in BOOLEAN}
\* For the operations that only dispatch, one context per value of current_job.
DispatchContexts == {ExecutionContext(job, job) : job \in BOOLEAN}

\* The run sends one of its lifecycle signals.
EngineSignals == {"BEFORE_WORKLOAD_SETUP", "BEFORE_WORKLOAD_EXECUTION"}

Send(signal) ==
    \E beh \in [Reached({signal}) -> Outcomes], ctx \in DispatchContexts :
        Finish("send", <<signal>>, send(Start, signal, ctx, Inputs(beh)))

RebootSignals == {"BEFORE_REBOOT", "SUCCESSFUL_REBOOT", "AFTER_REBOOT"}

\* The run reboots the target: TargetManager.reboot(context, hard).
Reboot(hard) ==
    \E beh \in [Reached(RebootSignals) -> Outcomes], reboot_raises \in BOOLEAN,
       ctx \in DispatchContexts :
        Finish("reboot", <<IF hard THEN "hard" ELSE "soft">>,
               reboot(Start, ctx, hard, [Inputs(beh) EXCEPT !.reboot_raises = reboot_raises]))

\* The run checks the target: TargetManager.verify_target_responsive(context).
VerifyTargetResponsive ==
    \E probe \in BOOLEAN, hard_reset \in BOOLEAN, reboot_raises \in BOOLEAN, ctx \in Contexts :
        Finish("verify_target_responsive", <<>>,
               verify_target_responsive(Start, ctx,
                      [beh |-> <<>>, probe |-> probe, hard_reset |-> hard_reset,
                       reboot_raises |-> reboot_raises]))

\* The caller takes the result of the operation.
Return ==
    /\ ~Idle
    /\ last' = Op("idle", <<>>, <<>>, "none")
    /\ UNCHANGED <<pool, installs, registry, failures_detected, context, tm, errors_since_check>>

\* ---------------------------------------------------------- specification

CorePool == {"A", "B"}

Init ==
    /\ pool = CorePool
    /\ installed = <<>>
    /\ is_enabled = [i \in Insts |-> TRUE]
    /\ is_broken = [i \in Insts |-> FALSE]
    /\ callbacks = <<>>
    /\ connections = [g \in Signals |-> <<>>]
    /\ failures_detected = FALSE
    /\ context = [status |-> "NONE", events |-> <<>>]
    /\ tm = [is_responsive |-> TRUE]
    /\ errors_since_check = FALSE
    /\ installs = [i \in Insts |-> 0]
    /\ last = Op("idle", <<>>, <<>>, "none")

Refs == pool \cup {Instruments[i].name : i \in pool} \cup {UnknownName}

Next ==
    \/ \E i \in pool : Install(i)
    \/ \E x \in Refs : Uninstall(x)
    \/ \E x \in Refs : Enable(<<x>>)
    \/ \E x \in Refs : Disable(<<x>>)
    \/ EnableAll
    \/ DisableAll
    \/ ResetFailures
    \/ CheckFailures
    \/ \E g \in EngineSignals : Send(g)
    \/ \E hard \in BOOLEAN : Reboot(hard)
    \/ VerifyTargetResponsive
    \/ Return

Spec == Init /\ [][Next]_vars

\* ------------------------------------------------------------- properties

\* The operations that dispatch signals, and the trace of the last one.
Dispatching == last.op \in {"send", "reboot", "verify_target_responsive"}
T == last.trace

KindAt(t, k, kind) == k \in 1..Len(t) /\ t[k].kind = kind

\* The signal whose dispatch position k of trace t belongs to.
SignalAt(t, k) ==
    LET sends == {j \in 1..k : t[j].kind = "send"}
    IN  IF sends = {} THEN "" ELSE t[CHOOSE j \in sends : \A i \in sends : i <= j].a

SameDispatch(t, p, q) == \A k \in p..q : t[k].kind # "send"

\* Where the ManagedCallback call that is running at position k returns
\* or raises (0 when the trace does not say).
ExitAt(t, k) ==
    LET exits == {j \in k + 1..Len(t) : t[j].kind = "mc_exit"}
    IN  IF exits = {} THEN 0 ELSE CHOOSE j \in exits : \A i \in exits : j <= i

\* The events of the call running at position k, after k and up to its exit.
Within(t, k) == {j \in k + 1..ExitAt(t, k) : TRUE}

\* The priority an instrument method was declared with.
DeclaredPriority(ev) ==
    LET p == Instruments[ev.a].attrs[ev.b].priority
    IN  IF p.set THEN p.value ELSE PriorityStart + 2 * PriorityStep

\* C1: within one send, the callbacks connected to the signal (the
\* instrument methods install connected, at their declared priority) are
\* invoked in descending priority order, those of equal priority in the
\* order they were registered; a send that is not cut short by an error
\* invokes each registration of its signal exactly once.
C1_PriorityOrder ==
    Dispatching =>
        /\ \A p, q \in 1..Len(T) :
               (p < q /\ T[p].kind = "mc" /\ T[q].kind = "mc" /\ SameDispatch(T, p, q)) =>
                   \/ DeclaredPriority(T[p]) > DeclaredPriority(T[q])
                   \/ /\ DeclaredPriority(T[p]) = DeclaredPriority(T[q])
                      /\ T[p].n < T[q].n
        /\ \A k \in 1..Len(T) :
               T[k].kind = "mc" => SIGNAL_MAP[T[k].b] = SignalAt(T, k)
        /\ (last.op = "send" /\ last.result = "none") =>
               LET regs == connections[last.arg[1]]
                   visits == {k \in 1..Len(T) : T[k].kind = "mc"}
               IN  /\ Cardinality(visits) = Len(regs)
                   /\ {T[k].n : k \in visits} = {regs[j].mc.serial : j \in 1..Len(regs)}

\* A send in which the higher priority of the later registration decided.
C1_Witness ==
    /\ last.op = "send"
    /\ last.result = "none"
    /\ \E p, q \in 1..Len(T) :
           /\ p < q /\ T[p].kind = "mc" /\ T[q].kind = "mc"
           /\ T[p].a # T[q].a
           /\ T[p].n > T[q].n
           /\ DeclaredPriority(T[p]) > DeclaredPriority(T[q])

\* A send over two instruments' methods of equal priority.
C1_TieReached ==
    /\ last.op = "send"
    /\ \E p, q \in 1..Len(T) :
           /\ p < q /\ T[p].kind = "mc" /\ T[q].kind = "mc"
           /\ T[p].a # T[q].a
           /\ DeclaredPriority(T[p]) = DeclaredPriority(T[q])

\* TargetManager.is_responsive at position k of the trace of an operation
\* that started with the value r0.
ResponsiveAt(t, k, r0) ==
    LET sets == {j \in 1..k - 1 : t[j].kind = "is_responsive"}
    IN  IF sets = {} THEN r0
        ELSE t[CHOOSE j \in sets : \A i \in sets : i <= j].a = "True"

DispatchOps == {"send", "reboot", "verify_target_responsive"}

\* C2: a Managed Callback invoked while its instrument is disabled or while
\* is_responsive is false does not call the instrument method and returns
\* normally at once, with no effect on the failure flag, the status or the
\* event log; an operation all of whose callbacks were skipped leaves them
\* as they were.
C2_SkippedCallbackIsNoOp ==
    [][last'.op \in DispatchOps =>
          LET t == last'.trace
          IN  /\ \A k \in 1..Len(t) :
                     (/\ t[k].kind = "mc"
                      /\ ~is_enabled[t[k].a] \/ ~ResponsiveAt(t, k, tm.is_responsive)) =>
                         KindAt(t, k + 1, "mc_exit") /\ t[k + 1].a = "none"
              /\ (last'.op = "send" /\ \A k \in 1..Len(t) : t[k].kind # "call") =>
                     /\ last'.result = "none"
                     /\ UNCHANGED <<failures_detected, context>>]_vars

\* A send to an unresponsive target that reached the callbacks of a
\* disabled and of an enabled instrument.
C2_Witness ==
    /\ last.op = "send"
    /\ ~tm.is_responsive
    /\ \E k \in 1..Len(T) : T[k].kind = "mc" /\ ~is_enabled[T[k].a]
    /\ \E k \in 1..Len(T) : T[k].kind = "mc" /\ is_enabled[T[k].a]

\* What the call running at position k of the trace read as `what`.
ReadWithin(t, k, what, value) ==
    \E j \in Within(t, k) : t[j].kind = "read" /\ t[j].a = what /\ t[j].b = value

\* The last operation looked for the current job and found one, or none.
JobActive ==
    \E k \in 1..Len(T) : T[k].kind = "read" /\ T[k].a = "current_job" /\ T[k].b = "True"
NoJobActive ==
    \E k \in 1..Len(T) : T[k].kind = "read" /\ T[k].a = "current_job" /\ T[k].b = "False"

\* C3: when the method of an enabled instrument on a responsive target
\* raises a workload-level error, the status becomes FAILED and the Managed
\* Callback returns normally; an unclassified error with a job active makes
\* it PARTIAL and returns normally; an unclassified error with no job active
\* is raised on to the caller, with no change of the status.
C3_Classification ==
    Dispatching =>
        \A k \in 1..Len(T) :
            LET x == ExitAt(T, k)
                statuses == {j \in Within(T, k) : T[j].kind = "set_status"}
            IN  /\ (T[k].kind = "raised" /\ T[k].a = "WorkloadError") =>
                       /\ T[x].a = "none"
                       /\ statuses # {} /\ \A j \in statuses : T[j].a = "FAILED"
                       /\ (x = Len(T) => context.status = "FAILED")
                /\ (T[k].kind = "raised" /\ T[k].a = "Exception"
                    /\ ReadWithin(T, k, "current_job", "True")) =>
                       /\ T[x].a = "none"
                       /\ statuses # {} /\ \A j \in statuses : T[j].a = "PARTIAL"
                       /\ (x = Len(T) => context.status = "PARTIAL")
                /\ (T[k].kind = "raised" /\ T[k].a = "Exception"
                    /\ ~ReadWithin(T, k, "current_job", "True")) =>
                       /\ ReadWithin(T, k, "current_job", "False")
                       /\ T[x].a = "Exception"
                       /\ statuses = {}
                       /\ (last.op = "send" => last.result = "Exception")

\* A send, with no job active, in which one method raised a workload error
\* and a later one an unclassified error.
C3_Witness ==
    /\ last.op = "send"
    /\ NoJobActive
    /\ last.result = "Exception"
    /\ context.status = "FAILED"
    /\ \E k \in 1..Len(T) : T[k].kind = "raised" /\ T[k].a = "WorkloadError"

\* C4: a user interruption, a target-not-responding error or a timeout
\* raised by an instrument method leaves the Managed Callback unchanged and
\* ends the dispatch: nothing is flagged, logged or set, no further callback
\* of that send runs, and the sender receives the error.
C4_FatalErrorsPropagate ==
    Dispatching =>
        \A k \in 1..Len(T) :
            (T[k].kind = "raised" /\
             T[k].a \in {"KeyboardInterrupt", "TargetNotRespondingError", "TimeoutError"}) =>
                /\ KindAt(T, k + 1, "mc_exit") /\ T[k + 1].a = T[k].a
                /\ ~KindAt(T, k + 2, "mc")
                /\ (last.op = "send" => last.result = T[k].a /\ Len(T) = k + 1)

\* A send, with a job active, whose first callback's unclassified error was
\* absorbed and which a timeout in the second callback ended.
C4_Witness ==
    /\ last.op = "send"
    /\ JobActive
    /\ last.result = "TimeoutError"
    /\ \E k \in 1..Len(T) : T[k].kind = "mc_exit" /\ T[k].a = "none"

\* C5: when the instrument method raises a target-class error that is not
\* a target-not-responding error, the Managed Callback runs
\* verify_target_responsive, which probes the target; if the probe answers,
\* the Managed Callback returns normally with the context status unchanged.
C5_TargetErrorIsVerified ==
    Dispatching =>
        \A k \in 1..Len(T) :
            (T[k].kind = "raised" /\ T[k].a = "TargetError") =>
                /\ \E j \in Within(T, k) : T[j].kind = "check_responsive"
                /\ (\A j \in Within(T, k) :
                        T[j].kind = "check_responsive" => T[j].a = "up") =>
                       /\ ExitAt(T, k) # 0
                       /\ T[ExitAt(T, k)].a = "none"
                       /\ \A j \in Within(T, k) : T[j].kind # "set_status"

\* C6: check_failures returns true if and only if a callback error was
\* intercepted by the Managed Callbacks since the previous check_failures
\* or reset_failures (errors_since_check records exactly that), and a
\* check_failures that immediately follows another returns false.
C6_CheckFailures ==
    [][last'.op = "check_failures" =>
           /\ (last'.result = "True") <=> errors_since_check
           /\ last.op = "check_failures" => last'.result = "False"]_vars

\* A check that reports intercepted errors, the last of them a workload
\* error.
C6_Witness ==
    /\ last.op = "check_failures"
    /\ last.result = "True"
    /\ Len(context.events) = 2
    /\ context.status = "FAILED"

\* A check that has nothing to report although errors were logged before.
C6_CheckedTwice ==
    /\ last.op = "check_failures"
    /\ last.result = "False"
    /\ Len(context.events) > 0

VerifyOp == last.op = "verify_target_responsive"

\* What the last operation read as `what`.
Saw(what, value) ==
    \E k \in 1..Len(T) : T[k].kind = "read" /\ T[k].a = what /\ T[k].b = value

\* What the liveness probe of the last operation gave.
Probe(answer) ==
    \E k \in 1..Len(T) : T[k].kind = "check_responsive" /\ T[k].a = answer

\* The positions of the trace with an event of the kind.
Events(kind) == {k \in 1..Len(T) : T[k].kind = kind}

\* C7: when the probe of verify_target_responsive fails and the reboot
\* policy disallows a reboot or the target has no hard reset, the call
\* raises TargetNotRespondingError, reboots nothing, sends no signal and
\* leaves is_responsive false.
C7_UnresponsiveIsFatal ==
    (VerifyOp /\ Probe("down") /\ (Saw("can_reboot", "False") \/ Saw("hard_reset", "False"))) =>
        /\ last.result = "TargetNotRespondingError"
        /\ Events("target.reboot") = {}
        /\ Events("send") = {}
        /\ ~tm.is_responsive

\* A failed probe under a policy that disallows the reboot, on a target
\* that has installed receivers for the reboot signals.
C7_Witness ==
    /\ VerifyOp /\ Probe("down") /\ Saw("can_reboot", "False")
    /\ last.result = "TargetNotRespondingError"
    /\ connections["BEFORE_REBOOT"] # <<>>

\* A failed probe with the reboot allowed, on a target without hard reset.
C7_NoHardReset ==
    VerifyOp /\ Probe("down") /\ Saw("can_reboot", "True") /\ Saw("hard_reset", "False")

\* C8: when the probe fails, the reboot is allowed and the target has a
\* hard reset, verify_target_responsive reboots the target exactly once,
\* hard, through TargetManager.reboot; when that reboot completes,
\* is_responsive is true again and the caller gets ExecutionError, never a
\* normal return.
C8_HardRebootThenExecutionError ==
    (VerifyOp /\ Probe("down") /\ Saw("can_reboot", "True") /\ Saw("hard_reset", "True")) =>
        /\ Cardinality(Events("target.reboot")) = 1
        /\ \A k \in Events("target.reboot") :
               /\ T[k].a = "hard"
               /\ \E j \in 1..k - 1 : T[j].kind = "send" /\ T[j].a = "BEFORE_REBOOT"
               /\ ~ResponsiveAt(T, k, TRUE)
        /\ last.result # "none"
        /\ (\A k \in Events("raise") : T[k].a = "ExecutionError") =>
               /\ tm.is_responsive
               /\ last.result = "ExecutionError"
               /\ T[Len(T)] = Ev("raise", "ExecutionError", "", 0)

\* A recovery by hard reboot during which the receivers of the reboot
\* signals were visited.
C8_Witness ==
    /\ VerifyOp /\ Probe("down") /\ Saw("hard_reset", "True")
    /\ last.result = "ExecutionError"
    /\ tm.is_responsive
    /\ Events("mc") # {}

\* C9: when the probe answers, verify_target_responsive returns normally,
\* reboots nothing, sends no signal and changes neither is_responsive nor
\* anything else.
C9_ResponsiveIsNoOp ==
    [][(last'.op = "verify_target_responsive"
        /\ \E k \in 1..Len(last'.trace) :
               last'.trace[k].kind = "check_responsive" /\ last'.trace[k].a = "up") =>
           /\ last'.result = "none"
           /\ \A k \in 1..Len(last'.trace) :
                  last'.trace[k].kind \in {"read", "check_responsive"}
           /\ UNCHANGED <<tm, context, failures_detected, pool, registry>>]_vars

\* A probe that answers on a target marked unresponsive.
C9_Witness ==
    /\ VerifyOp /\ Probe("up")
    /\ ~tm.is_responsive

\* The target's reboot operation raised at position k of the trace.
RebootRaisedAt(k) ==
    /\ KindAt(T, k, "target.reboot")
    /\ KindAt(T, k + 1, "raise")

\* The positions after k where the signal is sent.
SentAfter(k, signal) == {j \in k + 1..Len(T) : T[j].kind = "send" /\ T[j].a = signal}

\* C10: in every operation, once BEFORE_REBOOT has been sent AFTER_REBOOT
\* is sent too; when the target's reboot raises, AFTER_REBOOT is sent after
\* it, SUCCESSFUL_REBOOT is not, and the caller gets the reboot's error
\* (unless a receiver of AFTER_REBOOT raised one of its own).
C10_RebootIsBracketed ==
    Dispatching =>
        /\ \A k \in Events("send") :
               T[k].a = "BEFORE_REBOOT" => Cardinality(SentAfter(k, "AFTER_REBOOT")) = 1
        /\ \A k \in Events("target.reboot") :
               /\ \E j \in 1..k - 1 : T[j].kind = "send" /\ T[j].a = "BEFORE_REBOOT"
               /\ RebootRaisedAt(k) =>
                      /\ SentAfter(k, "SUCCESSFUL_REBOOT") = {}
                      /\ SentAfter(k + 1, "AFTER_REBOOT") # {}
                      /\ last.result # "none"
                      /\ (\A j \in k + 1..Len(T) : T[j].kind = "mc_exit" => T[j].a = "none")
                             => last.result = T[k + 1].a

\* A reboot that raised, after which a receiver of AFTER_REBOOT ran and the
\* caller got the reboot's error.
C10_Witness ==
    /\ last.op = "reboot"
    /\ last.result = "TargetError"
    /\ \E k \in Events("target.reboot") :
           /\ RebootRaisedAt(k)
           /\ \E j \in k + 1..Len(T) : T[j].kind = "call" /\ T[j].b = "after_reboot"

\* ------------------------------------------------ the instrument registry
\* The registry operations over a richer set of instruments: two instances
\* of one name, two names of one identifier, and instruments whose mapped
\* attributes install must refuse.

RegistryPool == {"A", "C", "D", "E", "F", "G", "H"}

\* The instruments the run toggles in this specification.
Toggled == {"A", "D"}
ToggleRefs == Toggled \cup {Instruments[i].name : i \in Toggled} \cup {UnknownName}

\* instrument.is_broken = True, set on the instance from outside the module.
MarkBroken(instrument) ==
    /\ Idle
    /\ ~is_broken[instrument]
    /\ is_broken' = [is_broken EXCEPT ![instrument] = TRUE]
    /\ last' = Op("mark_broken", <<instrument>>, <<>>, "none")
    /\ UNCHANGED <<pool, installs, installed, is_enabled, callbacks, connections,
                   failures_detected, context, tm, errors_since_check>>

\* The run sends a lifecycle signal and every instrument method returns.
SendAllReturn(signal) ==
    \E ctx \in DispatchContexts :
        Finish("send", <<signal>>, send(Start, signal, ctx, Inputs(<<>>)))

InitRegistry ==
    /\ pool = RegistryPool
    /\ installed = <<>>
    /\ is_enabled = [i \in Insts |-> TRUE]
    /\ is_broken = [i \in Insts |-> FALSE]
    /\ callbacks = <<>>
    /\ connections = [g \in Signals |-> <<>>]
    /\ failures_detected = FALSE
    /\ context = [status |-> "NONE", events |-> <<>>]
    /\ tm = [is_responsive |-> TRUE]
    /\ errors_since_check = FALSE
    /\ installs = [i \in Insts |-> 0]
    /\ last = Op("idle", <<>>, <<>>, "none")

NextRegistry ==
    \/ \E i \in pool : Install(i)
    \/ \E x \in Refs : Uninstall(x)
    \/ \E x \in ToggleRefs : Enable(<<x>>)
    \/ \E x \in ToggleRefs : Disable(<<x>>)
    \/ EnableAll
    \/ DisableAll
    \/ \E i \in Toggled : MarkBroken(i)
    \/ \E g \in EngineSignals : SendAllReturn(g)
    \/ Return

SpecRegistry == InitRegistry /\ [][NextRegistry]_vars

\* The names of the installed instruments.
InstalledNames == {Instruments[i].name : i \in Range(installed)}

\* What the error of the last operation says: the template of its message
\* and what the message names.
ErrorSays(template, what) ==
    /\ Len(T) = 1
    /\ T[1].kind = "raise"
    /\ T[1].b = <<template, what>>

\* C11: install of an instrument that is installed, or whose name is the
\* name of an installed instrument, raises the already-installed ValueError
\* and leaves the installed list, the Managed Callbacks and the connections
\* of every signal as they were.
C11_DuplicateInstallFails ==
    [][(/\ last'.op = "install"
        /\ \/ last'.arg[1] \in Range(installed)
           \/ Instruments[last'.arg[1]].name \in InstalledNames) =>
           /\ last'.result = "ValueError"
           /\ last'.trace[1].b = <<"already installed", Instruments[last'.arg[1]].name>>
           /\ UNCHANGED <<installed, callbacks, connections>>]_vars

\* The refused install of a second instance under the name of an installed
\* instrument.
C11_Witness ==
    /\ last.op = "install"
    /\ last.arg[1] = "C"
    /\ "A" \in Range(installed)
    /\ "C" \notin Range(installed)
    /\ last.result = "ValueError"
    /\ ErrorSays("already installed", "trace-cmd")

\* The reference x, an instance or a name, refers to the instrument i: a
\* name refers to the instruments whose name has the same identifier.
RefersTo(x, i) ==
    IF x \in Insts THEN i = x
    ELSE identifier(Instruments[i].name) = identifier(x)

\* The sequence without its k-th element.
Without(seq, k) == SubSeq(seq, 1, k - 1) \o SubSeq(seq, k + 1, Len(seq))

\* C12: uninstall of a reference, by name or by instance, to which no
\* installed instrument answers raises ValueError and leaves the installed
\* list as it was; uninstall of a reference to an installed instrument
\* removes that one entry from the list, keeps every other entry in place
\* and returns normally.
C12_Uninstall ==
    [][last'.op = "uninstall" =>
           LET x == last'.arg[1]
               hits == {k \in 1..Len(installed) : RefersTo(x, installed[k])}
           IN  /\ hits = {} =>
                      /\ last'.result = "ValueError"
                      /\ installed' = installed
               /\ hits # {} =>
                      /\ last'.result = "none"
                      /\ \E k \in hits : installed' = Without(installed, k)
               /\ UNCHANGED <<is_enabled, is_broken>>]_vars

\* An uninstall by instance of an instrument that is not installed while
\* another instance of its name is.
C12_Witness ==
    /\ last.op = "uninstall"
    /\ last.arg[1] = "C"
    /\ last.result = "ValueError"
    /\ "A" \in Range(installed)

\* An uninstall by name that removed one of two installed instruments.
C12_RemovedByName ==
    /\ last.op = "uninstall"
    /\ last.arg[1] \notin Insts
    /\ last.result = "none"
    /\ Len(installed) = 1

\* C13: the installed list never holds one instrument twice, nor two
\* instruments whose names the lookup by name takes for the same name (the
\* names have the same identifier).
C13_OneInstrumentPerName ==
    \A j, k \in 1..Len(installed) :
        j < k =>
            /\ installed[j] # installed[k]
            /\ identifier(Instruments[installed[j]].name)
                   # identifier(Instruments[installed[k]].name)

\* C14: enable and enable_all leave is_enabled of every broken instrument
\* as it was, and with it the instrument's place in get_enabled and
\* get_disabled; enabling a broken instrument raises nothing; after
\* enable_all every installed instrument that is not broken is in
\* get_enabled.
C14_BrokenStaysAsItWas ==
    [][last'.op \in {"enable", "enable_all"} =>
           /\ \A i \in Insts :
                  is_broken[i] =>
                      /\ is_enabled'[i] = is_enabled[i]
                      /\ (i \in Range(get_enabled)) <=> (i \in Range(get_enabled'))
                      /\ (i \in Range(get_disabled)) <=> (i \in Range(get_disabled'))
           /\ UNCHANGED <<installed, is_broken>>
           /\ (/\ last'.op = "enable"
               /\ \E k \in 1..Len(last'.arg) :
                      \/ last'.arg[k] \in Insts
                      \/ \E i \in Range(installed) : RefersTo(last'.arg[k], i) /\ is_broken[i])
                  => last'.result = "none"
           /\ last'.op = "enable_all" =>
                  /\ last'.result = "none"
                  /\ \A i \in Range(installed) :
                         ~is_broken[i] => i \in Range(get_enabled')]_vars

\* enable of an installed, disabled, broken instrument: it stays disabled.
C14_Witness ==
    /\ last.op = "enable"
    /\ last.arg = <<"A">>
    /\ last.result = "none"
    /\ "A" \in Range(get_disabled)
    /\ is_broken["A"]

\* enable_all over a broken disabled instrument and a sound disabled one.
C14_EnableAllReached ==
    /\ last.op = "enable_all"
    /\ Len(get_enabled) = 1
    /\ Len(get_disabled) = 1

\* A mapped attribute install accepts: callable, and taking exactly two
\* positional parameters or fewer than two together with *args.
Acceptable(m) == m.callable /\ (m.args = 2 \/ (m.args < 2 /\ m.varargs))

\* The mapped attributes of the instrument, in the order of dir().
MappedAttrs(i) == SelectSeq(Instruments[i].dir, LAMBDA a : a \in DOMAIN SIGNAL_MAP)

\* The first mapped attribute of the instrument that install refuses (only
\* for instruments that have one).
FirstRefused(i) ==
    LET m == MappedAttrs(i)
        k == CHOOSE j \in 1..Len(m) :
                 /\ ~Acceptable(Instruments[i].attrs[m[j]])
                 /\ \A h \in 1..j - 1 : Acceptable(Instruments[i].attrs[m[h]])
    IN  m[k]

AllAcceptable(i) ==
    \A j \in 1..Len(MappedAttrs(i)) : Acceptable(Instruments[i].attrs[MappedAttrs(i)[j]])

\* The last operation was an install that was not refused as a duplicate.
InstallScanned ==
    /\ last.op = "install"
    /\ ~(Len(T) = 1 /\ T[1].b[1] = "already installed")

\* C15 as stated: install succeeds exactly when every mapped attribute is
\* acceptable, and in every other case raises an error that names the
\* attribute and the observed arity.
C15_AsStated ==
    InstallScanned =>
        LET i == last.arg[1]
        IN  /\ (last.result = "none") <=> AllAcceptable(i)
            /\ ~AllAcceptable(i) =>
                   /\ last.result = "ValueError"
                   /\ ErrorSays("arity", FirstRefused(i))
                   /\ T[1].n = Instruments[i].attrs[FirstRefused(i)].args

\* C15: install succeeds exactly when every mapped attribute is acceptable;
\* otherwise it raises ValueError for the first attribute it refuses: for a
\* callable one the error names the attribute and the observed arity, for
\* one that is not callable it names the attribute (no arity is observed).
C15_ArityRule ==
    InstallScanned =>
        LET i == last.arg[1]
            m == Instruments[i].attrs[FirstRefused(i)]
        IN  /\ (last.result = "none") <=> AllAcceptable(i)
            /\ ~AllAcceptable(i) =>
                   /\ last.result = "ValueError"
                   /\ m.callable =>
                          /\ ErrorSays("arity", FirstRefused(i))
                          /\ T[1].n = m.args
                   /\ ~m.callable => ErrorSays("not callable", FirstRefused(i))

\* install refused for a method of three positional parameters.
C15_Witness ==
    /\ last.op = "install"
    /\ last.arg[1] = "E"
    /\ last.result = "ValueError"
    /\ ErrorSays("arity", "start")
    /\ T[1].n = 3

\* The positions of the trace where an instrument method raised an error
\* that the second except clause takes.
InterceptedAt ==
    {k \in Events("raised") :
         T[k].a \notin {"KeyboardInterrupt", "TargetNotRespondingError", "TimeoutError"}}

\* C17: for every error the Managed Callback intercepts, the failure flag
\* is set and one event with the error's message is added to the context,
\* both before anything of the classification happens (a status, a raise, a
\* verification), also when the error is then raised on; nothing else adds
\* an event.
C17_FlagAndEventFirst ==
    Dispatching =>
        /\ \A k \in InterceptedAt :
               /\ KindAt(T, k + 1, "failures_detected")
               /\ KindAt(T, k + 2, "add_event")
               /\ T[k + 2].a = message(T[k].a)
               /\ Cardinality({j \in Within(T, k) : T[j].kind = "add_event"}) = 1
               /\ Cardinality({j \in Within(T, k) : T[j].kind = "failures_detected"}) = 1
        /\ Cardinality(Events("add_event")) = Cardinality(InterceptedAt)
        /\ InterceptedAt # {} =>
               LET n == Cardinality(InterceptedAt)
               IN  /\ failures_detected
                   /\ Len(context.events) >= n
                   /\ \A j \in 1..n :
                          \E k \in InterceptedAt :
                              context.events[Len(context.events) - n + j] = message(T[k].a)

\* A send with no job active whose unclassified error was raised on to the
\* sender after the flag was set and the event added.
C17_Witness ==
    /\ last.op = "send"
    /\ last.result = "Exception"
    /\ NoJobActive
    /\ failures_detected
    /\ Events("add_event") # {}
    /\ Events("set_status") = {}

\* How often the last operation called the method of the instrument.
Calls(i, attr) == Cardinality({k \in Events("call") : T[k].a = i /\ T[k].b = attr})

\* C18: uninstall disconnects nothing.  A send that reaches all its
\* receivers on a responsive target calls each method of an enabled
\* instrument that is mapped to the signal once per successful install of
\* the instrument, whether or not the instrument has been uninstalled since
\* (for the instruments install accepts).
C18_UninstallKeepsCallbacks ==
    (last.op = "send" /\ last.result = "none" /\ tm.is_responsive) =>
        \A i \in Insts :
            (is_enabled[i] /\ AllAcceptable(i)) =>
                \A j \in 1..Len(MappedAttrs(i)) :
                    SIGNAL_MAP[MappedAttrs(i)[j]] = last.arg[1] =>
                        Calls(i, MappedAttrs(i)[j]) = installs[i]

\* A send that called a method twice for an instrument that was installed
\* twice and is not installed any more.
C18_Witness ==
    /\ last.op = "send"
    /\ last.arg[1] = "BEFORE_WORKLOAD_SETUP"
    /\ installs["A"] = 2
    /\ "A" \notin Range(installed)
    /\ Calls("A", "setup") = 2

\* C20: a failed install leaves nothing behind: an instrument none of whose
\* installs succeeded is not in the installed list, none of its methods is
\* connected to a signal, and no send calls one of its methods.
C20_FailedInstallIsAtomic ==
    \A i \in Insts :
        installs[i] = 0 =>
            /\ i \notin Range(installed)
            /\ \A g \in Signals : \A k \in 1..Len(connections[g]) :
                   connections[g][k].mc.instrument # i
            /\ Dispatching => \A k \in Events("call") : T[k].a # i

\* ------------------------------- the target manager: construction, finalize

\* The CPUs of the target: range(target.number_of_cpus).
NumCpus == 3
Cpus == 0..NumCpus - 1

\* The truth value of a Python value that is True, False or None.
Truthy(v) == v = "True"

\* parameters.get('disconnect'): None when the key is absent.
parameters_get(parameters, key) ==
    IF key \in DOMAIN parameters THEN parameters[key] ELSE "None"

\* The parameter sets a manager is constructed with.
Parameters == {<<>>} \cup {[disconnect |-> v] : v \in {"True", "False"}}

\* signal.wrap(name) without sender or context.
NoContext ==
    [type |-> "NoneType", current_job |-> FALSE,
     reboot_policy |-> [can_reboot |-> FALSE], value |-> FALSE]

\* The state a target-manager operation threads: the dispatch state and
\* the manager's disconnect policy and target.
StartTM == Start @@ [disconnect |-> tm.disconnect, target |-> tm.target]

\* The steps of an operation take the state the step before left: a step
\* does nothing when an error is already on its way out.

\* target.connect(), target.setup(), target.disconnect()
target_connect(s, o) ==
    IF s.exc # "none" THEN s
    ELSE IF o.connect_raises
         THEN Raise(Log(s, Ev("target.connect", "", "", 0)), "TargetError")
         ELSE [Log(s, Ev("target.connect", "", "", 0)) EXCEPT !.target.connected = TRUE]

target_setup(s) ==
    IF s.exc # "none" THEN s ELSE Log(s, Ev("target.setup", "", "", 0))

target_disconnect(s, o) ==
    IF s.exc # "none" THEN s
    ELSE IF o.disconnect_raises
         THEN Raise(Log(s, Ev("target.disconnect", "", "", 0)), "TargetError")
         ELSE [Log(s, Ev("target.disconnect", "", "", 0)) EXCEPT !.target.connected = FALSE]

\* target.hotplug.online_all(): brings CPUs online one by one; when it
\* raises, the CPUs o.onlined came online before the error.  A TargetError
\* is caught by the caller and logged; any other error goes on.
hotplug_online_all(s, o) ==
    IF o.online_all = "ok"
    THEN [Log(s, Ev("hotplug.online_all", "", "", 0)) EXCEPT !.target.online = @ \cup o.onlined]
    ELSE IF o.online_all = "TargetError"
    THEN Log([Log(s, Ev("hotplug.online_all", "", "", 0))
                  EXCEPT !.target.online = @ \cup o.onlined],
             Ev("logger.debug", "", "", 0))
    ELSE Raise([Log(s, Ev("hotplug.online_all", "", "", 0))
                    EXCEPT !.target.online = @ \cup o.onlined], o.online_all)

\* target.hotplug.offline(*cpus)
hotplug_offline(s, cpus, o) ==
    IF s.exc # "none" THEN s
    ELSE IF o.offline_raises
         THEN Raise(Log(s, Ev("hotplug.offline", "", "", cpus)), "TargetError")
         ELSE [Log(s, Ev("hotplug.offline", "", "", cpus)) EXCEPT !.target.online = @ \ cpus]

\* RuntimeParameterManager(target): the capability discovery; the event
\* records the CPUs that were online when it ran.
RuntimeParameterManager(s, o) ==
    IF s.exc # "none" THEN s
    ELSE IF o.discovery_raises
         THEN Raise(Log(s, Ev("RuntimeParameterManager", "", "", s.target.online)), "TargetError")
         ELSE Log(s, Ev("RuntimeParameterManager", "", "", s.target.online))

\* TargetManager._init_target
init_target(s, o) ==
    target_setup(
        wrap_exit(target_connect(wrap_enter(set_responsive(s, TRUE), "TARGET_CONNECT",
                                            NoContext, o), o),
                  "TARGET_CONNECT", NoContext, o))

\* A restore step that takes no CPU offline.
offline_set_empty(online_cpus) == {}

\* all_cpus.difference(online_cpus)
offline_set(online_cpus) == Cpus \ online_cpus

\* The hotplug branch of TargetManager.__init__, online_cpus being what
\* target.list_online_cpus() returned.
discover_with_all_cpus(s, online_cpus, o) ==
    hotplug_offline(
        RuntimeParameterManager(
            hotplug_online_all(Log(s, Ev("list_online_cpus", "", "", online_cpus)), o), o),
        offline_set(online_cpus), o)

\* The part of TargetManager.__init__ after _init_target.
discover(s, o) ==
    IF s.exc # "none" THEN s
    ELSE IF s.target.hotplug THEN discover_with_all_cpus(s, s.target.online, o)
    ELSE RuntimeParameterManager(s, o)

\* TargetManager.__init__(name, parameters, outdir)
TargetManager_init(s, parameters, o) ==
    discover(init_target([s EXCEPT !.disconnect = parameters_get(parameters, "disconnect")], o), o)

\* The condition of finalize when only the policy counts.
finalize_disconnects_by_policy_only(t) == Truthy(t.disconnect)

\* self.disconnect or isinstance(self.target.platform, Gem5SimulationPlatform)
finalize_disconnects(t) ==
    Truthy(t.disconnect) \/ t.target.platform = "Gem5SimulationPlatform"

\* TargetManager.finalize
finalize(s, o) ==
    IF finalize_disconnects(s)
    THEN wrap_exit(target_disconnect(wrap_enter(s, "TARGET_DISCONNECT", NoContext, o), o),
                   "TARGET_DISCONNECT", NoContext, o)
    ELSE s

\* The state a target-manager operation leaves.
FinishTM(name, arg, r, phase) ==
    /\ Idle
    /\ tm' = [phase |-> phase, is_responsive |-> r.is_responsive,
              disconnect |-> r.disconnect, target |-> r.target]
    /\ last' = Op(name, arg, r.trace, r.exc)
    /\ UNCHANGED <<pool, installs, registry, failures_detected, context, errors_since_check>>

\* What the device does during a construction: whether connect raises, how
\* online_all ends and which CPUs it brought online, whether the discovery
\* raises, whether offline raises.
ConstructInputs(target) ==
    {o \in [beh : {<<>>}, connect_raises : BOOLEAN,
            online_all : {"ok", "TargetError", "TimeoutError"},
            onlined : SUBSET (Cpus \ target.online),
            discovery_raises : BOOLEAN, offline_raises : BOOLEAN] :
        /\ o.online_all = "ok" => o.onlined = Cpus \ target.online
        /\ o.connect_raises => (o.online_all = "ok" /\ ~o.discovery_raises /\ ~o.offline_raises)}

\* The run constructs the manager for the target.
\* The state a construction leaves: the manager exists when it returned.
FinishConstruct(parameters, r) ==
    FinishTM("TargetManager", <<parameters_get(parameters, "disconnect")>>, r,
             IF r.exc = "none" THEN "constructed" ELSE "none")

Construct ==
    /\ tm.phase = "none"
    /\ \E parameters \in Parameters, o \in ConstructInputs(tm.target) :
           FinishConstruct(parameters, TargetManager_init(StartTM, parameters, o))

\* The run finalizes the manager.
Finalize ==
    /\ tm.phase = "constructed"
    /\ \E disconnect_raises \in BOOLEAN :
           FinishTM("finalize", <<>>,
                    finalize(StartTM, [beh |-> <<>>, disconnect_raises |-> disconnect_raises]),
                    "finalized")

\* Before the manager is constructed: a device with some CPUs online
\* (CPU 0 cannot be taken offline), with or without hotplug, physical or
\* simulated.  is_responsive and disconnect are set by the construction.
Targets ==
    [hotplug : BOOLEAN, platform : {"Platform", "Gem5SimulationPlatform"},
     online : {c \in SUBSET Cpus : 0 \in c}, connected : {FALSE}]

InitTM ==
    /\ pool = {}
    /\ installed = <<>>
    /\ is_enabled = [i \in Insts |-> TRUE]
    /\ is_broken = [i \in Insts |-> FALSE]
    /\ callbacks = <<>>
    /\ connections = [g \in Signals |-> <<>>]
    /\ failures_detected = FALSE
    /\ context = [status |-> "NONE", events |-> <<>>]
    /\ \E target \in Targets :
           tm = [phase |-> "none", is_responsive |-> FALSE, disconnect |-> "None",
                 target |-> target]
    /\ errors_since_check = FALSE
    /\ installs = [i \in Insts |-> 0]
    /\ last = Op("idle", <<>>, <<>>, "none")

NextTM ==
    \/ Construct
    \/ Finalize
    \/ Return

SpecTM == InitTM /\ [][NextTM]_vars

\* The positions in trace t of the events of one kind.
At(t, kind) == {k \in 1..Len(t) : t[k].kind = kind}
\* The positions in trace t where one signal is sent.
SendsOf(t, signal) == {k \in At(t, "send") : t[k].a = signal}
DisconnectSignals ==
    {"BEFORE_TARGET_DISCONNECT", "SUCCESSFUL_TARGET_DISCONNECT", "AFTER_TARGET_DISCONNECT"}

\* C16: finalize calls target.disconnect() exactly when the disconnect
\* policy is set or the platform is a simulated one.  When it does, the call
\* is bracketed: BEFORE_TARGET_DISCONNECT is sent first, AFTER_TARGET_DISCONNECT
\* last, also when the disconnect raises, and SUCCESSFUL_TARGET_DISCONNECT in
\* between exactly when it did not raise.  When it does not, finalize calls
\* nothing and sends nothing, and the target stays connected.
C16_FinalizeDisconnects ==
    last.op = "finalize" =>
        LET wanted == tm.disconnect = "True" \/ tm.target.platform = "Gem5SimulationPlatform"
        IN  /\ (At(T, "target.disconnect") # {}) <=> wanted
            /\ wanted =>
                  /\ Len(T) >= 3
                  /\ SendsOf(T, "BEFORE_TARGET_DISCONNECT") = {1}
                  /\ At(T, "target.disconnect") = {2}
                  /\ SendsOf(T, "AFTER_TARGET_DISCONNECT") = {Len(T)}
                  /\ (SendsOf(T, "SUCCESSFUL_TARGET_DISCONNECT") # {}) <=> last.result = "none"
                  /\ SendsOf(T, "SUCCESSFUL_TARGET_DISCONNECT") \subseteq {3}
                  /\ tm.target.connected <=> last.result # "none"
            /\ ~wanted => (T = <<>> /\ last.result = "none" /\ tm.target.connected)

\* finalize disconnected a simulated target although the policy was not set.
C16_Witness ==
    /\ last.op = "finalize"
    /\ tm.disconnect \in {"False", "None"}
    /\ tm.target.platform = "Gem5SimulationPlatform"
    /\ At(T, "target.disconnect") = {2}
    /\ ~tm.target.connected

\* finalize left a physical target connected.
C16_NotDisconnected ==
    /\ last.op = "finalize"
    /\ tm.disconnect = "None"
    /\ tm.target.platform = "Platform"
    /\ T = <<>>

\* C19: a construction that returns, on a target with hotplug, leaves the
\* set of online CPUs as it was before, also when online_all raised a
\* TargetError after bringing some CPUs online; online_all is called first,
\* then the capability discovery runs, then the CPUs that were offline
\* before are taken offline again.
C19_OnlineCpusRestored ==
    [][(last'.op = "TargetManager" /\ last'.result = "none" /\ tm.target.hotplug) =>
           /\ tm'.target.online = tm.target.online
           /\ \E a \in At(last'.trace, "hotplug.online_all") :
              \E b \in At(last'.trace, "RuntimeParameterManager") :
              \E c \in At(last'.trace, "hotplug.offline") :
                  /\ a < b /\ b < c
                  /\ tm.target.online \subseteq last'.trace[b].n
                  /\ last'.trace[c].n = Cpus \ tm.target.online
                  /\ At(last'.trace, "logger.debug") = {} => last'.trace[b].n = Cpus]_vars

\* A construction returned after online_all had failed with a TargetError
\* having brought some CPU online, and a CPU is offline again afterwards.
C19_Witness ==
    /\ last.op = "TargetManager" /\ last.result = "none"
    /\ tm.target.hotplug
    /\ At(T, "logger.debug") # {}
    /\ \E a \in At(T, "list_online_cpus") : \E b \in At(T, "RuntimeParameterManager") :
           /\ T[a].n # T[b].n
           /\ T[a].n = tm.target.online
           /\ tm.target.online # Cpus

\* The position where the recovery that the failed probe at position k
\* started is completed: where is_responsive is set to true again, or the
\* end of the trace when it never is.
RecoveredAt(k) ==
    LET back == {j \in k + 1..Len(T) : T[j].kind = "is_responsive" /\ T[j].a = "True"}
    IN  IF back = {} THEN Len(T) ELSE CHOOSE j \in back : \A i \in back : j <= i

\* C21: in verify_target_responsive, is_responsive is set to false right
\* after the failed probe and is not set again before the recovery reboot
\* has returned, after AFTER_REBOOT was sent; from the failed probe to that
\* point every Managed Callback that is reached returns at once without
\* calling its instrument method.
C21_NoCallbackDuringRecovery ==
    VerifyOp =>
        \A k \in Events("check_responsive") :
            T[k].a = "down" =>
                /\ KindAt(T, k + 1, "is_responsive") /\ T[k + 1].a = "False"
                /\ \A j \in k + 2..RecoveredAt(k) :
                       /\ T[j].kind # "call"
                       /\ T[j].kind = "mc" =>
                              KindAt(T, j + 1, "mc_exit") /\ T[j + 1].a = "none"
                       /\ T[j].kind = "is_responsive" =>
                              /\ j = RecoveredAt(k)
                              /\ \E b \in k + 2..j - 1 : \E r \in b + 1..j - 1 : \E a \in r + 1..j - 1 :
                                     /\ T[b].kind = "send" /\ T[b].a = "BEFORE_REBOOT"
                                     /\ T[r].kind = "target.reboot"
                                     /\ T[a].kind = "send" /\ T[a].a = "AFTER_REBOOT"

\* A completed recovery during which the callbacks of enabled instruments
\* were reached by BEFORE_REBOOT and by AFTER_REBOOT.
C21_Witness ==
    /\ VerifyOp /\ Probe("down")
    /\ last.result = "ExecutionError" /\ tm.is_responsive
    /\ \E j \in Events("mc") :
           is_enabled[T[j].a] /\ SignalAt(T, j) = "BEFORE_REBOOT" /\ j < RecoveredAt(1)
    /\ \E j \in Events("mc") :
           is_enabled[T[j].a] /\ SignalAt(T, j) = "AFTER_REBOOT" /\ j < RecoveredAt(1)

\* In trace t: the probe gave the answer; the target's reboot was called,
\* hard, and returned; the target's reboot raised.
ProbeIn(t, answer) ==
    \E k \in 1..Len(t) : t[k].kind = "check_responsive" /\ t[k].a = answer
HardRebootReturnedIn(t) ==
    \E k \in 1..Len(t) :
        /\ t[k].kind = "target.reboot" /\ t[k].a = "hard"
        /\ ~KindAt(t, k + 1, "raise")
RebootRaisedIn(t) ==
    \E k \in 1..Len(t) : t[k].kind = "target.reboot" /\ KindAt(t, k + 1, "raise")

\* C22: once the manager is constructed, a step changes is_responsive only
\* if it is a verify_target_responsive whose probe failed: it goes from true
\* to false only then, and from false to true only when in addition the
\* hard reboot of the recovery returned and the call ended with its
\* ExecutionError.  While it is false, a verify_target_responsive whose
\* probe answers, a reboot call, and a recovery whose reboot raises leave
\* it false.
C22_ResponsiveOnlyByVerify ==
    [][/\ tm'.is_responsive # tm.is_responsive =>
              /\ last'.op = "verify_target_responsive"
              /\ ProbeIn(last'.trace, "down")
              /\ tm'.is_responsive =>
                     /\ HardRebootReturnedIn(last'.trace)
                     /\ last'.result = "ExecutionError"
       /\ (/\ ~tm.is_responsive
           /\ \/ last'.op = "reboot"
              \/ last'.op = "verify_target_responsive" /\ ProbeIn(last'.trace, "up")
              \/ last'.op = "verify_target_responsive" /\ RebootRaisedIn(last'.trace))
              => ~tm'.is_responsive
       /\ (last'.op = "verify_target_responsive" /\ RebootRaisedIn(last'.trace))
              => ~tm'.is_responsive]_vars

\* A recovery completed: the probe failed, the hard reboot returned, and
\* the target is marked responsive again.
C22_Witness ==
    /\ VerifyOp /\ Probe("down")
    /\ HardRebootReturnedIn(T)
    /\ \E k \in Events("is_responsive") : T[k].a = "False"
    /\ tm.is_responsive

\* A reboot call that returned on a target marked unresponsive.
C22_RebootLeftUnresponsive ==
    last.op = "reboot" /\ last.result = "none" /\ ~tm.is_responsive

\* A recovery whose reboot raised.
C22_RecoveryFailed ==
    VerifyOp /\ RebootRaisedIn(T) /\ ~tm.is_responsive
====
